---- MODULE Spec2Model ----
(***************************************************************************)
(* The asynchronous analysis pipeline of chiveit: the submission endpoint  *)
(* (src/src/server/index.ts, POST /api/analyze-async), the Redis store and *)
(* queue, the worker (src/worker/worker.js) and the result endpoint        *)
(* (GET /api/result/:jobId).  Every await of the source is one step, so    *)
(* the handlers interleave exactly where the event loops let them.         *)
(***************************************************************************)
EXTENDS Integers, Sequences, FiniteSets, TLC

(* ---- bounds of the model ---- *)
MaxJobs == 2        \* jobIds that crypto.randomUUID hands out in one run
MaxImages == 2      \* files of one multipart upload
MaxExpiries == 1    \* distinct keys whose TTL runs out in one run
MaxCalls == 2       \* calls of scoreChiveAnalysis on one object
MaxTokens == 3      \* pieces the content of one analysis response is made of
VariedCells == 3    \* cells of the grid whose label is drawn from CellLabels

Workers == {"w1", "w2"}
JobIds == 1..MaxJobs
\* A key the store does not hold (redis.get answers null), a local not yet set.
Absent == [status |-> "absent"]
NoJob == [jobId |-> 0]
None == "none"

(* ---- JSON values, as JSON.parse hands them to the code ---- *)
\* A value with its typeof; n is the number (thicknesses in hundredths of a
\* millimetre, the two unit scores in hundredths, overallScore in units) and
\* s the string.
JsNull == [type |-> "null", n |-> 0, s |-> ""]
JsUndefined == [type |-> "undefined", n |-> 0, s |-> ""]
JsNum(x) == [type |-> "number", n |-> x, s |-> ""]
JsStr(t) == [type |-> "string", n |-> 0, s |-> t]
\* The number JSON.parse makes of a literal beyond the doubles (1e999).
Infinity == [type |-> "number", n |-> 1, s |-> "Infinity"]
IsFinite(v) == v.type = "number" /\ v.s # "Infinity"
GreaterThan(v, k) == v.type = "number" /\ (v = Infinity \/ v.n > k)
AtMost(v, k) == IsFinite(v) /\ v.n <= k

\* The 3x3 grid of the prompt (worker.js 63, 76) and one entry of `regions`.
GridIds == <<"r1c1", "r1c2", "r1c3", "r2c1", "r2c2", "r2c3", "r3c1", "r3c2", "r3c3">>
Region(id, label) == [id |-> id, regionCutQualityLabel |-> label]
JsArray(items) == [isArray |-> TRUE, items |-> items]
NotAnArray == [isArray |-> FALSE, items |-> <<>>]

\* The object the prompt asks for (worker.js 75): two metres in hundredths of
\* a millimetre, the label, the notes and the nine regions.
GoodMetrics ==
  [averageThicknessMm |-> JsNum(200),
   thicknessStdDevMm |-> JsNum(75),
   cutQualityLabel |-> JsStr("clean"),
   rawNotes |-> JsStr("even cuts"),
   regions |-> JsArray([i \in 1..9 |-> Region(GridIds[i], JsStr("clean"))])]

\* The same object with a number where the notes should be: JSON.parse
\* (worker.js 107) accepts any object and nothing checks its shape.
NumericNotesMetrics == [GoodMetrics EXCEPT !.rawNotes = JsNum(5)]

(* What the analysis service can answer, as the worker's parse sees it:    *)
(* content holding a JSON object (with the object), or one of the failures *)
(* of worker.js lines 89-107.                                              *)
RawResults == {GoodMetrics, NumericNotesMetrics}

\* Objects that do not have the nine cells: the first cell twice and no
\* other, and no `regions` at all.
TwoRegionMetrics ==
  [GoodMetrics EXCEPT !.regions =
     JsArray(<<Region("r1c1", JsStr("clean")), Region("r1c1", JsStr("clean"))>>)]
NoRegionsMetrics == [GoodMetrics EXCEPT !.regions = NotAnArray]
ParsedObjects == RawResults \cup {TwoRegionMetrics, NoRegionsMetrics}

\* An answer in which the model put scores and notes of its own next to the
\* metrics it was asked for.
ModelScores ==
  [thicknessConsistencyScore |-> JsNum(99), cutQualityScore |-> JsNum(99),
   overallScore |-> JsNum(99), notes |-> <<"Perfect chives.">>]
ModelScoredMetrics ==
  [f \in DOMAIN GoodMetrics \cup DOMAIN ModelScores |->
     IF f \in DOMAIN ModelScores THEN ModelScores[f] ELSE GoodMetrics[f]]
ApiFailures == {"X.AI API error"}
FetchFailure == "Failed to fetch image"
RedisFailure == "Redis command failed"
NullJobFailure == "Cannot set properties of null"

VARIABLES
  jobs,       \* store, key analysis:jobs:{jobId} -> job record or Absent
  results,    \* store, key analysis:results:{jobId} -> result record or Absent
  queue,      \* list analysis:queue of serialized jobs
  expired,    \* history: keys <<kind, jobId>> whose TTL has run out at least once
  ttl,        \* store, kind -> jobId -> seconds to live set with the key (0: none)
  nextId,     \* next jobId crypto.randomUUID returns
  wpc,        \* worker -> position in pollQueue / processJob
  wcur,       \* worker -> jobData of the job in hand (NoJob when none)
  wres,       \* worker -> the parsed result or the caught error's message
  wjob,       \* worker -> the local `job` object read back from the store
  resultLog,  \* history: jobId -> the result records written, in order
  popLog,     \* history: jobId -> workers whose blPop returned the job
  apiCalls,   \* history: jobId -> calls made to the analysis service
  jobLog,     \* history: jobId -> the job records written under its key, in order
  spc,        \* POST /api/analyze-async handler: position
  sfiles,     \* number of files of the request being handled
  sidx,       \* index of the file the loop is at
  sjob,       \* the `job` object of the current iteration
  sjobs,      \* the `jobs` array built so far
  sresp,      \* the response sent for the last request (Absent before any)
  pushLog,    \* history: jobs Submit has pushed, in order
  pushedAfterFailure, \* history: jobIds pushed when a job had already failed
  rpc,        \* GET /api/result/:jobId handler: position
  rid,        \* req.params.jobId
  rresp,      \* the response sent for the last request (Absent before any)
  rinfo,      \* history: what held of rid when the request arrived
  ppc,        \* pollResults (client): position
  pjobIds,    \* its argument jobIds
  pidx,       \* index in jobIds of the job the for loop is at
  attempts,   \* the `attempts` counter of the while loop
  presults,   \* the `results` array built so far
  pdata,      \* the `data` of the last read (Absent before any)
  preads,     \* history: reads made for the job the loop is at
  input,      \* scoreChiveAnalysis: the object passed as `base`
  output,     \* what the last call returned (NotScored before any)
  calls,      \* history: calls made on `input`
  content,    \* processJob: the `content` of the analysis response, in pieces
  parsed      \* what the parse step made of it (NoOutcome before)

storeVars == <<jobs, results, queue, expired, ttl, nextId>>
workerVars == <<wpc, wcur, wres, wjob>>
historyVars == <<resultLog, popLog, apiCalls, jobLog>>
submitVars == <<spc, sfiles, sidx, sjob, sjobs, sresp, pushLog, pushedAfterFailure>>
pollVars == <<ppc, pjobIds, pidx, attempts, presults, pdata, preads>>
scoreVars == <<input, output, calls>>
parseVars == <<content, parsed>>
readVars == <<rpc, rid, rresp, rinfo, pollVars, scoreVars, parseVars>>
vars == <<storeVars, workerVars, historyVars, submitVars, readVars>>

(* ---- records ---- *)
\* worker.js 118, 125, 140, 147: { EX: 3600 }, seconds; index.ts 133:
\* { expiration: new Date(Date.now() + 3600000) }, milliseconds from now.
EX == 3600
expiration == 3600000

\* src/src/server/index.ts 122-131: the job object Submit builds.
NewJob(id, url) == [jobId |-> id, imageUrl |-> url, status |-> "pending"]

\* worker.js 112-117 and 134-139: the two shapes of a result record.
CompletedResult(id, raw) == [jobId |-> id, status |-> "completed", result |-> raw]
FailedResult(id, msg) == [jobId |-> id, status |-> "failed", error |-> msg]

JobIdOf(w) == wcur[w].jobId

\* What processJob has in hand for the store: the parsed `result` of worker.js
\* 107, or the `error.message` of 129-137.
NoOutcome == [result |-> JsUndefined, message |-> None]
Parsed(raw) == [result |-> raw, message |-> None]
Thrown(msg) == [result |-> JsUndefined, message |-> msg]

\* Every worker that popped id has left processJob for it.
Finished(id) ==
  /\ popLog[id] # {}
  /\ \A w \in popLog[id] : wcur[w] = NoJob \/ wcur[w].jobId # id

\* processJob was left for id through its catch block (worker.js 128-148): a
\* failed result was written, or nothing could be written at all.
JobFailed(id) ==
  /\ Finished(id)
  /\ \/ resultLog[id] = <<>>
     \/ \E i \in 1..Len(resultLog[id]) : resultLog[id][i].status = "failed"

(* ---- scoring: scoreChiveAnalysis ---- *)
ScoreFields == {"thicknessConsistencyScore", "cutQualityScore", "overallScore", "notes"}

\* Mutant: every labelled region counts, no_chives included.
RegionsWithChivesUnfiltered(base) ==
  {i \in 1..Len(base.regions.items) :
     base.regions.items[i].regionCutQualityLabel.type = "string"}

\* part_001 30-33: the regions that hold chives.
RegionList(base) == IF base.regions.isArray THEN base.regions.items ELSE <<>>
RegionsWithChives(base) ==
  {i \in 1..Len(RegionList(base)) :
     /\ RegionList(base)[i].regionCutQualityLabel.type = "string"
     /\ RegionList(base)[i].regionCutQualityLabel.s # "no_chives"}

\* JavaScript truthiness of a value, String.prototype.trim and toLowerCase on
\* the strings of the model (" " is the string of white space only).
Truthy(v) ==
  \/ v.type = "string" /\ v.s # ""
  \/ v.type = "number" /\ v.n # 0
Trim(t) == IF t = " " THEN "" ELSE t
ToLowerCase(t) == IF t = "Clean" THEN "clean" ELSE t

\* part_001 42 and 92: `rawNotes && rawNotes.trim().length`; a truthy value
\* that is not a string has no trim method and the call throws a TypeError.
NotesTest(rawNotes) ==
  IF ~Truthy(rawNotes) THEN "empty"
  ELSE IF rawNotes.type # "string" THEN "throws"
  ELSE IF Trim(rawNotes.s) # "" THEN "present"
  ELSE "empty"

\* a / b rounded to the nearest integer, halves up (a >= 0, b > 0): what
\* toFixed and Math.round do on the values of 73 and 89, none of which is a
\* half.
RoundDiv(a, b) == (2 * a + b) \div (2 * b)

\* The returned object; notes is the list of the strings it is made of.
Scored(c, q, o, notes) ==
  [threw |-> FALSE, thicknessConsistencyScore |-> c, cutQualityScore |-> q,
   overallScore |-> o, notes |-> notes]
NoScore(notes) == Scored(JsNull, JsNull, JsNull, notes)
ScoreThrows ==
  [threw |-> TRUE, thicknessConsistencyScore |-> JsNull, cutQualityScore |-> JsNull,
   overallScore |-> JsNull, notes |-> <<>>]

\* Mutant: the quotient is cut off after two decimals instead of rounded.
ConsistencyOfTruncated(std) ==
  IF ~IsFinite(std) THEN JsNull
  ELSE IF std.n >= 150 THEN JsNum(0)
  ELSE JsNum((100 * (150 - std.n)) \div 150)

\* part_001 70-74: Number(max(0, 1 - std / 1.5).toFixed(2)), in hundredths.
ConsistencyOf(std) ==
  IF ~IsFinite(std) THEN JsNull
  ELSE IF std.n >= 150 THEN JsNum(0)
  ELSE JsNum(RoundDiv(100 * (150 - std.n), 150))

\* Mutant: the label is compared as written, without toLowerCase.
QualityOfCaseSensitive(label) ==
  IF label.type # "string" THEN JsNull
  ELSE IF label.s = "clean" THEN JsNum(100)
  ELSE IF label.s = "mixed" THEN JsNum(70)
  ELSE IF label.s = "ragged" THEN JsNum(35)
  ELSE JsNum(50)

\* part_001 77-84: the label's score, in hundredths.
QualityOf(label) ==
  IF label.type # "string" THEN JsNull
  ELSE IF ToLowerCase(label.s) = "clean" THEN JsNum(100)
  ELSE IF ToLowerCase(label.s) = "mixed" THEN JsNum(70)
  ELSE IF ToLowerCase(label.s) = "ragged" THEN JsNum(35)
  ELSE JsNum(50)

\* Mutant: the two weights are exchanged.
OverallOfSwapped(c, q) ==
  LET consistency == IF c = JsNull THEN 50 ELSE c.n
      quality == IF q = JsNull THEN 50 ELSE q.n
  IN JsNum(RoundDiv(40 * consistency + 60 * quality, 100))

\* part_001 87-89: Math.round((consistency * 0.6 + quality * 0.4) * 100).
OverallOf(c, q) ==
  LET consistency == IF c = JsNull THEN 50 ELSE c.n
      quality == IF q = JsNull THEN 50 ELSE q.n
  IN JsNum(RoundDiv(60 * consistency + 40 * quality, 100))

\* Mutant: a thickness of zero is taken as plausible.
ImplausibleBelowZero(avg) ==
  avg.type = "number" /\ (AtMost(avg, 0 - 1) \/ GreaterThan(avg, 500))

\* part_001 59: typeof averageThicknessMm === 'number' && (<= 0 || > 5).
Implausible(avg) ==
  avg.type = "number" /\ (AtMost(avg, 0) \/ GreaterThan(avg, 500))

\* part_001 27-102.
scoreChiveAnalysis(base) ==
  LET active == Cardinality(RegionsWithChives(base))
      avg == base.averageThicknessMm
      c == ConsistencyOf(base.thicknessStdDevMm)
      q == QualityOf(base.cutQualityLabel)
  IN IF active = 0
       THEN CASE NotesTest(base.rawNotes) = "throws" -> ScoreThrows
              [] NotesTest(base.rawNotes) = "present" ->
                   NoScore(<<base.rawNotes.s,
                             " (No regions with chives detected; score not computed.)">>)
              [] OTHER -> NoScore(<<"No regions with chives detected; score not computed.">>)
     ELSE IF active = 1
       THEN NoScore(<<"Insufficient chive coverage (only one region contains chives); score not computed.">>)
     ELSE IF Implausible(avg)
       THEN NoScore(<<"Model reported an implausible average thickness for chives; score not computed.">>)
     ELSE CASE NotesTest(base.rawNotes) = "throws" -> ScoreThrows
            [] NotesTest(base.rawNotes) = "present" ->
                 Scored(c, q, OverallOf(c, q), <<base.rawNotes.s>>)
            [] OTHER ->
                 Scored(c, q, OverallOf(c, q),
                        <<"Scored based on thickness uniformity and cleanliness of cuts.">>)

\* Mutant: the spreads are exchanged, { ...scored, ...result.result }.
SpreadRawLast(raw, scored) ==
  [f \in DOMAIN raw \cup ScoreFields |-> IF f \in DOMAIN raw THEN raw[f] ELSE scored[f]]

\* index.ts 178-181: { ...result.result, ...scored }.
Spread(raw, scored) ==
  [f \in DOMAIN raw \cup ScoreFields |-> IF f \in ScoreFields THEN scored[f] ELSE raw[f]]

(* ---- worker: pollQueue ---- *)
\* Mutant: the head is read and left in the list (lIndex instead of blPop).
BlPopItemPeek(w) ==
  /\ wpc[w] = "poll"
  /\ queue # <<>>
  /\ wcur' = [wcur EXCEPT ![w] = Head(queue)]
  /\ popLog' = [popLog EXCEPT ![Head(queue).jobId] = @ \cup {w}]
  /\ wpc' = [wpc EXCEPT ![w] = "fetch"]
  /\ UNCHANGED <<jobs, results, queue, expired, ttl, nextId, wres, wjob,
                 resultLog, apiCalls, jobLog>>
  /\ UNCHANGED <<submitVars, readVars>>

\* Mutant: the head is moved to the tail of the list (a circular list, as
\* with blMove onto the same key) so that it is delivered again.
BlPopItemRotate(w) ==
  /\ wpc[w] = "poll"
  /\ queue # <<>>
  /\ wcur' = [wcur EXCEPT ![w] = Head(queue)]
  /\ queue' = Append(Tail(queue), Head(queue))
  /\ popLog' = [popLog EXCEPT ![Head(queue).jobId] = @ \cup {w}]
  /\ wpc' = [wpc EXCEPT ![w] = "fetch"]
  /\ UNCHANGED <<jobs, results, expired, ttl, nextId, wres, wjob,
                 resultLog, apiCalls, jobLog>>
  /\ UNCHANGED <<submitVars, readVars>>

\* Mutant: the newest entry is taken (the list is popped at the end that
\* rPush appends to).
BlPopItemTail(w) ==
  /\ wpc[w] = "poll"
  /\ queue # <<>>
  /\ wcur' = [wcur EXCEPT ![w] = queue[Len(queue)]]
  /\ queue' = SubSeq(queue, 1, Len(queue) - 1)
  /\ popLog' = [popLog EXCEPT ![queue[Len(queue)].jobId] = @ \cup {w}]
  /\ wpc' = [wpc EXCEPT ![w] = "fetch"]
  /\ UNCHANGED <<jobs, results, expired, ttl, nextId, wres, wjob,
                 resultLog, apiCalls, jobLog>>
  /\ UNCHANGED <<submitVars, readVars>>

\* Mutant: processJob is called without await, so the loop pops again while
\* the job in hand is still being processed.
BlPopItemUnawaited(w) ==
  /\ wpc[w] \notin {"crashed", "backoff"}
  /\ queue # <<>>
  /\ wcur' = [wcur EXCEPT ![w] = Head(queue)]
  /\ queue' = Tail(queue)
  /\ popLog' = [popLog EXCEPT ![Head(queue).jobId] = @ \cup {w}]
  /\ wpc' = [wpc EXCEPT ![w] = "fetch"]
  /\ UNCHANGED <<jobs, results, expired, ttl, nextId, wres, wjob, resultLog, apiCalls, jobLog>>
  /\ UNCHANGED <<submitVars, readVars>>

\* worker.js 155-159: blPop returns the head of the list and removes it.
BlPopItem(w) ==
  /\ wpc[w] = "poll"
  /\ queue # <<>>
  /\ wcur' = [wcur EXCEPT ![w] = Head(queue)]
  /\ queue' = Tail(queue)
  /\ popLog' = [popLog EXCEPT ![Head(queue).jobId] = @ \cup {w}]
  /\ wpc' = [wpc EXCEPT ![w] = "fetch"]
  /\ UNCHANGED <<jobs, results, expired, ttl, nextId, wres, wjob, resultLog, apiCalls, jobLog>>
  /\ UNCHANGED <<submitVars, readVars>>

\* worker.js 152-157: blPop times out after 5 s on an empty list; result is null
\* and the loop polls again.
BlPopTimeout(w) ==
  /\ wpc[w] = "poll"
  /\ queue = <<>>
  /\ UNCHANGED <<storeVars, workerVars, historyVars>>
  /\ UNCHANGED <<submitVars, readVars>>

\* Mutant: the failed blPop has taken the head of the list with it.
BlPopErrorLosesHead(w) ==
  /\ wpc[w] = "poll"
  /\ wpc' = [wpc EXCEPT ![w] = "backoff"]
  /\ queue' = IF queue = <<>> THEN queue ELSE Tail(queue)
  /\ UNCHANGED <<jobs, results, expired, ttl, nextId, wcur, wres, wjob, historyVars>>
  /\ UNCHANGED <<submitVars, readVars>>

\* worker.js 155, 161-163: blPop throws; the catch of pollQueue logs and sleeps.
BlPopError(w) ==
  /\ wpc[w] = "poll"
  /\ wpc' = [wpc EXCEPT ![w] = "backoff"]
  /\ UNCHANGED <<jobs, results, queue, expired, ttl, nextId, wcur, wres, wjob, historyVars>>
  /\ UNCHANGED <<submitVars, readVars>>

\* worker.js 163: the POLL_INTERVAL sleep ends and the loop polls again.
Backoff(w) ==
  /\ wpc[w] = "backoff"
  /\ wpc' = [wpc EXCEPT ![w] = "poll"]
  /\ UNCHANGED <<storeVars, wcur, wres, wjob, historyVars>>
  /\ UNCHANGED <<submitVars, readVars>>

(* ---- worker: processJob ---- *)
\* processJob is left (return or throw): its locals are gone.
Leave(w, pc) ==
  /\ wpc' = [wpc EXCEPT ![w] = pc]
  /\ wcur' = [wcur EXCEPT ![w] = NoJob]
  /\ wres' = [wres EXCEPT ![w] = NoOutcome]
  /\ wjob' = [wjob EXCEPT ![w] = Absent]

\* A throw inside the try block (worker.js 27-127) lands in the catch (128).
Caught(w, msg) ==
  /\ wpc' = [wpc EXCEPT ![w] = "catch_set_result"]
  /\ wres' = [wres EXCEPT ![w] = Thrown(msg)]
  /\ wjob' = [wjob EXCEPT ![w] = Absent]
  /\ UNCHANGED wcur

\* worker.js 29-36: the image is fetched and encoded.
FetchImageOk(w) ==
  /\ wpc[w] = "fetch"
  /\ wpc' = [wpc EXCEPT ![w] = "analyze"]
  /\ UNCHANGED <<storeVars, wcur, wres, wjob, historyVars>>
  /\ UNCHANGED <<submitVars, readVars>>

\* worker.js 29-32: fetch throws, or the response is not ok.
FetchImageFails(w) ==
  /\ wpc[w] = "fetch"
  /\ Caught(w, FetchFailure)
  /\ UNCHANGED <<storeVars, historyVars>>
  /\ UNCHANGED <<submitVars, readVars>>

\* worker.js 39-107: the analysis call answers with a JSON object, which is parsed.
AnalyzeReturns(w, raw) ==
  /\ wpc[w] = "analyze"
  /\ wres' = [wres EXCEPT ![w] = Parsed(raw)]
  /\ apiCalls' = [apiCalls EXCEPT ![JobIdOf(w)] = @ + 1]
  /\ wpc' = [wpc EXCEPT ![w] = "set_result"]
  /\ UNCHANGED <<storeVars, wcur, wjob, resultLog, popLog, jobLog>>
  /\ UNCHANGED <<submitVars, readVars>>

AnalyzeOk(w) == \E raw \in RawResults : AnalyzeReturns(w, raw)

\* The same step with the objects that lack the nine cells.
AnalyzeOkMalformed(w) ==
  \E raw \in ParsedObjects \ RawResults : AnalyzeReturns(w, raw)

\* The same step with the object that carries scores of the model's own.
AnalyzeOkScored(w) == AnalyzeReturns(w, ModelScoredMetrics)

\* worker.js 89-107: the call fails, has no content, no JSON object, or bad JSON.
AnalyzeFails(w) ==
  /\ wpc[w] = "analyze"
  /\ \E msg \in ApiFailures : Caught(w, msg)
  /\ apiCalls' = [apiCalls EXCEPT ![JobIdOf(w)] = @ + 1]
  /\ UNCHANGED <<storeVars, resultLog, popLog, jobLog>>
  /\ UNCHANGED <<submitVars, readVars>>

\* Mutant: the result write is dropped (the command is never sent).
SetResultDropped(w) ==
  /\ wpc[w] = "set_result"
  /\ wpc' = [wpc EXCEPT ![w] = "get_job"]
  /\ UNCHANGED <<storeVars, wcur, wres, wjob, historyVars>>
  /\ UNCHANGED <<submitVars, readVars>>

\* Mutant: the scores are computed by the worker and stored with the result.
SetResultScored(w) ==
  /\ wpc[w] = "set_result"
  /\ results' = [results EXCEPT ![JobIdOf(w)] =
                   CompletedResult(JobIdOf(w),
                                   Spread(wres[w].result, scoreChiveAnalysis(wres[w].result)))]
  /\ resultLog' = [resultLog EXCEPT ![JobIdOf(w)] =
                     Append(@, CompletedResult(JobIdOf(w),
                                 Spread(wres[w].result, scoreChiveAnalysis(wres[w].result))))]
  /\ ttl' = [ttl EXCEPT !["result"][JobIdOf(w)] = EX]
  /\ wpc' = [wpc EXCEPT ![w] = "get_job"]
  /\ UNCHANGED <<jobs, queue, expired, nextId, wcur, wres, wjob, popLog, apiCalls, jobLog>>
  /\ UNCHANGED <<submitVars, readVars>>

\* worker.js 110-119: redis.set of the completed result.
SetResult(w) ==
  /\ wpc[w] = "set_result"
  /\ results' = [results EXCEPT ![JobIdOf(w)] = CompletedResult(JobIdOf(w), wres[w].result)]
  /\ resultLog' = [resultLog EXCEPT ![JobIdOf(w)] = Append(@, CompletedResult(JobIdOf(w), wres[w].result))]
  /\ ttl' = [ttl EXCEPT !["result"][JobIdOf(w)] = EX]
  /\ wpc' = [wpc EXCEPT ![w] = "get_job"]
  /\ UNCHANGED <<jobs, queue, expired, nextId, wcur, wres, wjob, popLog, apiCalls, jobLog>>
  /\ UNCHANGED <<submitVars, readVars>>

\* worker.js 123-124: redis.get of the job record, JSON.parse, job.status = ...;
\* a missing key parses to null and the assignment throws a TypeError.
GetJob(w) ==
  /\ wpc[w] = "get_job"
  /\ IF jobs[JobIdOf(w)] = Absent
       THEN Caught(w, NullJobFailure)
       ELSE /\ wjob' = [wjob EXCEPT ![w] = [jobs[JobIdOf(w)] EXCEPT !.status = "completed"]]
            /\ wpc' = [wpc EXCEPT ![w] = "set_job"]
            /\ UNCHANGED <<wcur, wres>>
  /\ UNCHANGED <<storeVars, historyVars>>
  /\ UNCHANGED <<submitVars, readVars>>

\* Mutant: the record is set without EX, which leaves the key without a
\* time to live.
SetJobPersistent(w) ==
  /\ wpc[w] = "set_job"
  /\ jobs' = [jobs EXCEPT ![JobIdOf(w)] = wjob[w]]
  /\ jobLog' = [jobLog EXCEPT ![JobIdOf(w)] = Append(@, wjob[w])]
  /\ ttl' = [ttl EXCEPT !["job"][JobIdOf(w)] = 0]
  /\ Leave(w, "poll")
  /\ UNCHANGED <<results, queue, expired, nextId, resultLog, popLog, apiCalls>>
  /\ UNCHANGED <<submitVars, readVars>>

\* worker.js 125-127: redis.set of the updated job record; processJob returns.
SetJob(w) ==
  /\ wpc[w] = "set_job"
  /\ jobs' = [jobs EXCEPT ![JobIdOf(w)] = wjob[w]]
  /\ jobLog' = [jobLog EXCEPT ![JobIdOf(w)] = Append(@, wjob[w])]
  /\ ttl' = [ttl EXCEPT !["job"][JobIdOf(w)] = EX]
  /\ Leave(w, "poll")
  /\ UNCHANGED <<results, queue, expired, nextId, resultLog, popLog, apiCalls>>
  /\ UNCHANGED <<submitVars, readVars>>

\* worker.js 110-125: one of the three Redis commands of the try block throws.
TryRedisError(w) ==
  /\ wpc[w] \in {"set_result", "get_job", "set_job"}
  /\ Caught(w, RedisFailure)
  /\ UNCHANGED <<jobs, results, queue, expired, ttl, nextId, historyVars>>
  /\ UNCHANGED <<submitVars, readVars>>

\* Mutant: the catch block goes to the job record without writing a Result.
CatchSetResultSkipped(w) ==
  /\ wpc[w] = "catch_set_result"
  /\ wpc' = [wpc EXCEPT ![w] = "catch_get_job"]
  /\ UNCHANGED <<storeVars, historyVars, wcur, wres, wjob>>
  /\ UNCHANGED <<submitVars, readVars>>

\* worker.js 132-141: redis.set of the failed result, with the caught message.
CatchSetResult(w) ==
  /\ wpc[w] = "catch_set_result"
  /\ results' = [results EXCEPT ![JobIdOf(w)] = FailedResult(JobIdOf(w), wres[w].message)]
  /\ resultLog' = [resultLog EXCEPT ![JobIdOf(w)] = Append(@, FailedResult(JobIdOf(w), wres[w].message))]
  /\ ttl' = [ttl EXCEPT !["result"][JobIdOf(w)] = EX]
  /\ wpc' = [wpc EXCEPT ![w] = "catch_get_job"]
  /\ UNCHANGED <<jobs, queue, expired, nextId, wcur, wres, wjob, popLog, apiCalls, jobLog>>
  /\ UNCHANGED <<submitVars, readVars>>

\* worker.js 144-146: as 123-124, inside the catch: the TypeError leaves
\* processJob and is caught by pollQueue (161).
CatchGetJob(w) ==
  /\ wpc[w] = "catch_get_job"
  /\ IF jobs[JobIdOf(w)] = Absent
       THEN Leave(w, "backoff")
       ELSE /\ wjob' = [wjob EXCEPT ![w] = [jobs[JobIdOf(w)] EXCEPT !.status = "failed"]]
            /\ wpc' = [wpc EXCEPT ![w] = "catch_set_job"]
            /\ UNCHANGED <<wcur, wres>>
  /\ UNCHANGED <<storeVars, historyVars>>
  /\ UNCHANGED <<submitVars, readVars>>

\* worker.js 147-149: redis.set of the failed job record; processJob returns.
CatchSetJob(w) ==
  /\ wpc[w] = "catch_set_job"
  /\ jobs' = [jobs EXCEPT ![JobIdOf(w)] = wjob[w]]
  /\ jobLog' = [jobLog EXCEPT ![JobIdOf(w)] = Append(@, wjob[w])]
  /\ ttl' = [ttl EXCEPT !["job"][JobIdOf(w)] = EX]
  /\ Leave(w, "poll")
  /\ UNCHANGED <<results, queue, expired, nextId, resultLog, popLog, apiCalls>>
  /\ UNCHANGED <<submitVars, readVars>>

\* Mutant: pollQueue without its try/catch: the error thrown out of processJob
\* is an unhandled rejection and the process ends.
CatchRedisErrorFatal(w) ==
  /\ wpc[w] \in {"catch_set_result", "catch_get_job", "catch_set_job"}
  /\ Leave(w, "crashed")
  /\ UNCHANGED <<jobs, results, queue, expired, ttl, nextId, historyVars>>
  /\ UNCHANGED <<submitVars, readVars>>

\* worker.js 132-147, 161-163: a Redis command of the catch block throws;
\* the error leaves processJob and pollQueue backs off.
CatchRedisError(w) ==
  /\ wpc[w] \in {"catch_set_result", "catch_get_job", "catch_set_job"}
  /\ Leave(w, "backoff")
  /\ UNCHANGED <<jobs, results, queue, expired, ttl, nextId, historyVars>>
  /\ UNCHANGED <<submitVars, readVars>>

\* The worker process dies (kill, OOM, host loss) with a job in hand; nothing
\* in worker.js puts that job back (151-166).  A worker dying between jobs is
\* a worker that stops polling, which every behaviour here already allows.
Crash(w) ==
  /\ wcur[w] # NoJob
  /\ wpc[w] # "crashed"
  /\ wpc' = [wpc EXCEPT ![w] = "crashed"]
  /\ UNCHANGED <<storeVars, wcur, wres, wjob, historyVars>>
  /\ UNCHANGED <<submitVars, readVars>>

(* ---- store: key expiry ---- *)
\* The TTL of a key (3600 s: worker.js 118, 125, 140, 147; index.ts 133) runs out.
Expire(kind, id) ==
  /\ \/ <<kind, id>> \in expired
     \/ Cardinality(expired) < MaxExpiries
  /\ ttl[kind][id] > 0
  /\ \/ /\ kind = "job"
        /\ jobs[id] # Absent
        /\ jobs' = [jobs EXCEPT ![id] = Absent]
        /\ UNCHANGED results
     \/ /\ kind = "result"
        /\ results[id] # Absent
        /\ results' = [results EXCEPT ![id] = Absent]
        /\ UNCHANGED jobs
  /\ expired' = expired \cup {<<kind, id>>}
  /\ ttl' = [ttl EXCEPT ![kind][id] = 0]
  /\ UNCHANGED <<queue, nextId, workerVars, historyVars>>
  /\ UNCHANGED <<submitVars, readVars>>

(* ---- server: POST /api/analyze-async ---- *)
\* Mutant: the id is the index of the file in its upload, so ids repeat
\* from one request to the next.
IndexAsJobId == sidx

\* index.ts 113: crypto.randomUUID() never repeats an id.
FreshJobId == nextId

\* index.ts 139 and 143: the two responses of the handler.
JobsResponse(ids) == [ok |-> TRUE, jobs |-> ids]
ErrorResponse == [ok |-> FALSE, jobs |-> <<>>]

\* index.ts 109-112, 139: a request with n files arrives; with no file the
\* loop body never runs and the handler answers { jobs: [] }.
SubmitStart(n) ==
  /\ spc \in {"idle", "done"}
  /\ nextId + n <= MaxJobs + 1
  /\ sfiles' = n
  /\ sidx' = 1
  /\ sjobs' = <<>>
  /\ sjob' = Absent
  /\ IF n = 0
       THEN /\ spc' = "done"
            /\ sresp' = JobsResponse(<<>>)
       ELSE /\ spc' = "upload"
            /\ sresp' = Absent
  /\ UNCHANGED <<storeVars, workerVars, historyVars, pushLog, pushedAfterFailure, readVars>>

\* index.ts 113-131: the id is drawn, the image uploaded, the job object built;
\* the media URL is written as the index of the file it belongs to.
SubmitUpload ==
  /\ spc = "upload"
  /\ sjob' = NewJob(FreshJobId, sidx)
  /\ nextId' = nextId + 1
  /\ spc' = "set"
  /\ UNCHANGED <<jobs, results, queue, expired, ttl, workerVars, historyVars,
                 sfiles, sidx, sjobs, sresp, pushLog, pushedAfterFailure, readVars>>

\* index.ts 116-119, 140-143: reddit.uploadMedia throws; the handler answers 500.
SubmitUploadFails ==
  /\ spc = "upload"
  /\ spc' = "done"
  /\ sresp' = ErrorResponse
  /\ UNCHANGED <<storeVars, workerVars, historyVars,
                 sfiles, sidx, sjob, sjobs, pushLog, pushedAfterFailure, readVars>>

\* Mutant: the job record is never written (the set is skipped).
SubmitSetSkipped ==
  /\ spc = "set"
  /\ spc' = "push"
  /\ UNCHANGED <<storeVars, workerVars, historyVars,
                 sfiles, sidx, sjob, sjobs, sresp, pushLog, pushedAfterFailure, readVars>>

\* index.ts 133: redis.set of the job record.
SubmitSet ==
  /\ spc = "set"
  /\ jobs' = [jobs EXCEPT ![sjob.jobId] = sjob]
  /\ jobLog' = [jobLog EXCEPT ![sjob.jobId] = Append(@, sjob)]
  /\ ttl' = [ttl EXCEPT !["job"][sjob.jobId] = expiration \div 1000]
  /\ spc' = "push"
  /\ UNCHANGED <<results, queue, expired, nextId, workerVars, resultLog, popLog, apiCalls,
                 sfiles, sidx, sjob, sjobs, sresp, pushLog, pushedAfterFailure, readVars>>

\* Mutant: lPush instead of rPush: the job goes to the head of the list.
SubmitPushHead ==
  /\ spc = "push"
  /\ queue' = <<sjob>> \o queue
  /\ pushLog' = Append(pushLog, sjob)
  /\ pushedAfterFailure' = IF \E id \in JobIds : JobFailed(id)
                             THEN pushedAfterFailure \cup {sjob.jobId}
                             ELSE pushedAfterFailure
  /\ sjobs' = Append(sjobs, sjob.jobId)
  /\ IF sidx = sfiles
       THEN /\ spc' = "done"
            /\ sresp' = JobsResponse(sjobs')
            /\ UNCHANGED sidx
       ELSE /\ spc' = "upload"
            /\ sidx' = sidx + 1
            /\ UNCHANGED sresp
  /\ UNCHANGED <<jobs, results, expired, ttl, nextId, workerVars, historyVars,
                 sfiles, sjob, readVars>>

\* index.ts 134-139: redis.rPush of the job, jobs.push(jobId), then the next
\* file or, after the last one, the response.
SubmitPush ==
  /\ spc = "push"
  /\ queue' = Append(queue, sjob)
  /\ pushLog' = Append(pushLog, sjob)
  /\ pushedAfterFailure' = IF \E id \in JobIds : JobFailed(id)
                             THEN pushedAfterFailure \cup {sjob.jobId}
                             ELSE pushedAfterFailure
  /\ sjobs' = Append(sjobs, sjob.jobId)
  /\ IF sidx = sfiles
       THEN /\ spc' = "done"
            /\ sresp' = JobsResponse(sjobs')
            /\ UNCHANGED sidx
       ELSE /\ spc' = "upload"
            /\ sidx' = sidx + 1
            /\ UNCHANGED sresp
  /\ UNCHANGED <<jobs, results, expired, ttl, nextId, workerVars, historyVars,
                 sfiles, sjob, readVars>>

\* Mutant: the catch block undoes the request: it deletes the job records
\* written for it and removes its entries from the list.
SubmitRedisErrorRollsBack ==
  /\ spc \in {"set", "push"}
  /\ spc' = "done"
  /\ sresp' = ErrorResponse
  /\ jobs' = [id \in JobIds |->
               IF id = sjob.jobId \/ \E i \in 1..Len(sjobs) : sjobs[i] = id
                 THEN Absent ELSE jobs[id]]
  /\ queue' = SelectSeq(queue, LAMBDA j : \A i \in 1..Len(sjobs) : sjobs[i] # j.jobId)
  /\ UNCHANGED <<results, expired, ttl, nextId, workerVars, historyVars,
                 sfiles, sidx, sjob, sjobs, pushLog, pushedAfterFailure, readVars>>

\* Mutant: a failed set is logged and the loop goes on to push the job.
SubmitRedisErrorSwallowed ==
  /\ spc \in {"set", "push"}
  /\ spc' = IF spc = "set" THEN "push" ELSE "done"
  /\ sresp' = IF spc = "set" THEN sresp ELSE ErrorResponse
  /\ UNCHANGED <<jobs, results, queue, expired, ttl, nextId, workerVars, historyVars,
                 sfiles, sidx, sjob, sjobs, pushLog, pushedAfterFailure, readVars>>

\* index.ts 133-134, 140-143: redis.set or redis.rPush throws; 500.
SubmitRedisError ==
  /\ spc \in {"set", "push"}
  /\ spc' = "done"
  /\ sresp' = ErrorResponse
  /\ UNCHANGED <<jobs, results, queue, expired, ttl, nextId, workerVars, historyVars,
                 sfiles, sidx, sjob, sjobs, pushLog, pushedAfterFailure, readVars>>

(* ---- server: GET /api/result/:jobId ---- *)
ScoringFailure == "rawNotes.trim is not a function"

\* The responses of index.ts 158, 163, 170, 176-182 and 186.
NotFound == [status |-> "not_found", result |-> JsUndefined, error |-> None]
StatusOnly(st) == [status |-> st, result |-> JsUndefined, error |-> None]
FailedResponse(msg) == [status |-> "failed", result |-> JsUndefined, error |-> msg]
CompletedResponse(raw, scored) ==
  [status |-> "completed", result |-> Spread(raw, scored), error |-> None]
ServerError == [status |-> "error", result |-> JsUndefined, error |-> RedisFailure]
ScoreError == [status |-> "error", result |-> JsUndefined, error |-> ScoringFailure]

\* The last answer of Submit is a success and holds id in its jobs array.
Returned(id) ==
  /\ spc = "done"
  /\ sresp.ok
  /\ \E k \in 1..Len(sresp.jobs) : sresp.jobs[k] = id

\* index.ts 151: a request for some jobId arrives.
GetStart(id) ==
  /\ rpc \in {"idle", "done"}
  /\ rid' = id
  /\ rpc' = "get_result"
  /\ rresp' = Absent
  /\ rinfo' = [finished |-> Finished(id), returned |-> Returned(id),
               hadResult |-> results[id] # Absent,
               pendingBefore |-> (rpc = "done" /\ rid = id /\ rresp = StatusOnly("pending")),
               terminalBefore |-> IF rpc = "done" /\ rid = id /\ rresp.status \in {"completed", "failed"}
                                    THEN rresp.status ELSE None]
  /\ UNCHANGED <<storeVars, workerVars, historyVars, submitVars, pollVars, scoreVars, parseVars>>

\* index.ts 167-186: the answer made from a stored result; a throw of
\* scoreChiveAnalysis is caught at 183 and answered 500.
ResultResponse(result) ==
  IF result.status = "failed" THEN FailedResponse(result.error)
  ELSE IF scoreChiveAnalysis(result.result).threw THEN ScoreError
  ELSE CompletedResponse(result.result, scoreChiveAnalysis(result.result))

\* Mutant: the job record is consulted first and a pending record is
\* answered from, whether or not a result is stored.
GetResultAfterJob ==
  /\ rpc = "get_result"
  /\ IF results[rid] = Absent
       THEN /\ rpc' = "get_job"
            /\ UNCHANGED rresp
       ELSE /\ rpc' = "done"
            /\ rresp' = IF jobs[rid] # Absent /\ jobs[rid].status = "pending"
                          THEN StatusOnly("pending")
                          ELSE ResultResponse(results[rid])
  /\ UNCHANGED <<storeVars, workerVars, historyVars, submitVars, rid, rinfo, pollVars, scoreVars, parseVars>>

\* index.ts 152-154, 167-182: redis.get of the result key; a stored result is
\* answered from, the scores computed from its raw metrics on the way out.
GetResult ==
  /\ rpc = "get_result"
  /\ IF results[rid] = Absent
       THEN /\ rpc' = "get_job"
            /\ UNCHANGED rresp
       ELSE /\ rpc' = "done"
            /\ rresp' = ResultResponse(results[rid])
  /\ UNCHANGED <<storeVars, workerVars, historyVars, submitVars, rid, rinfo, pollVars, scoreVars, parseVars>>

\* index.ts 156-164: no result; redis.get of the job key.
GetJobRecord ==
  /\ rpc = "get_job"
  /\ rpc' = "done"
  /\ rresp' = IF jobs[rid] = Absent THEN NotFound ELSE StatusOnly(jobs[rid].status)
  /\ UNCHANGED <<storeVars, workerVars, historyVars, submitVars, rid, rinfo, pollVars, scoreVars, parseVars>>

\* index.ts 152, 156, 183-186: a redis.get throws; 500.
GetRedisError ==
  /\ rpc \in {"get_result", "get_job"}
  /\ rpc' = "done"
  /\ rresp' = ServerError
  /\ UNCHANGED <<jobs, results, queue, expired, ttl, nextId, workerVars, historyVars,
                 submitVars, rid, rinfo, pollVars, scoreVars, parseVars>>

(* ---- client: pollResults ---- *)
maxAttempts == 60

\* Everything GET /api/result/:jobId can send (index.ts 158-186).
FailureMessages == {FetchFailure, RedisFailure, NullJobFailure} \cup ApiFailures
GetStatusAnswers ==
  {NotFound, ServerError, ScoreError}
    \cup {StatusOnly(st) : st \in {"pending", "completed", "failed"}}
    \cup {FailedResponse(msg) : msg \in FailureMessages}
    \cup {ResultResponse(CompletedResult(0, raw)) : raw \in RawResults}

\* The lists of jobIds Submit can answer with.
JobIdLists ==
  {<<>>} \cup {<<id>> : id \in JobIds}
         \cup {ids \in JobIds \X JobIds : ids[1] # ids[2]}

\* part_000 52-64, 67-79 and 90-102: the three entries of `results`.  The
\* filename, "Job " and the head of the jobId, is written as the jobId; notes
\* is the list of the strings it is made of.
ErrorText(e) == IF e = None THEN "undefined" ELSE e
CompletedItem(id, index, result) ==
  [filename |-> id, bunchIndex |-> index,
   averageThicknessMm |-> result.averageThicknessMm,
   thicknessStdDevMm |-> result.thicknessStdDevMm,
   cutQualityLabel |-> result.cutQualityLabel,
   rawNotes |-> result.rawNotes,
   regions |-> result.regions,
   thicknessConsistencyScore |-> result.thicknessConsistencyScore,
   cutQualityScore |-> result.cutQualityScore,
   overallScore |-> result.overallScore,
   notes |-> result.notes]
NoResultItem(id, index, notes) ==
  [filename |-> id, bunchIndex |-> index,
   averageThicknessMm |-> JsNull,
   thicknessStdDevMm |-> JsNull,
   cutQualityLabel |-> JsStr("unknown"),
   rawNotes |-> JsStr(""),
   regions |-> JsArray(<<>>),
   thicknessConsistencyScore |-> JsNull,
   cutQualityScore |-> JsNull,
   overallScore |-> JsNull,
   notes |-> notes]
FailedItem(id, index, error) ==
  NoResultItem(id, index, <<"Analysis failed: ", ErrorText(error)>>)
TimedOutItem(id, index) == NoResultItem(id, index, <<"Analysis timed out">>)

\* part_000 39-44: pollResults is called with a list of jobIds.
PollStart(ids) ==
  /\ ppc \in {"idle", "done", "thrown"}
  /\ pjobIds' = ids
  /\ pidx' = 1
  /\ attempts' = 0
  /\ presults' = <<>>
  /\ pdata' = Absent
  /\ preads' = 0
  /\ ppc' = IF ids = <<>> THEN "done" ELSE "fetch"
  /\ UNCHANGED <<storeVars, workerVars, historyVars, submitVars, rpc, rid, rresp, rinfo, scoreVars, parseVars>>

\* part_000 52, 65, 67, 80, 90, 43-44, 106: an entry is pushed and the for loop
\* goes to the next jobId (attempts = 0), or returns after the last one.
PushAndNext(item, att, reads) ==
  /\ presults' = Append(presults, item)
  /\ IF pidx = Len(pjobIds)
       THEN /\ ppc' = "done"
            /\ attempts' = att
            /\ preads' = reads
            /\ UNCHANGED pidx
       ELSE /\ ppc' = "fetch"
            /\ pidx' = pidx + 1
            /\ attempts' = 0
            /\ preads' = 0

\* Mutant: an answer of not_found ends the job with a failed entry.
PollReadStopsOnNotFound(data) ==
  /\ ppc = "fetch"
  /\ pdata' = data
  /\ IF data.status = "completed"
       THEN IF data.result = JsUndefined
              THEN /\ ppc' = "thrown"
                   /\ preads' = preads + 1
                   /\ UNCHANGED <<pidx, attempts, presults>>
              ELSE PushAndNext(CompletedItem(pjobIds[pidx], Len(presults), data.result),
                               attempts, preads + 1)
       ELSE IF data.status \in {"failed", "not_found"}
         THEN PushAndNext(FailedItem(pjobIds[pidx], Len(presults), data.error),
                          attempts, preads + 1)
         ELSE /\ ppc' = "sleep"
              /\ preads' = preads + 1
              /\ UNCHANGED <<pidx, attempts, presults>>
  /\ UNCHANGED pjobIds
  /\ UNCHANGED <<storeVars, workerVars, historyVars, submitVars, rpc, rid, rresp, rinfo, scoreVars, parseVars>>

\* part_000 47-81: one read of the result endpoint and what is made of it; a
\* completed answer without a result throws a TypeError at 55.
PollRead(data) ==
  /\ ppc = "fetch"
  /\ pdata' = data
  /\ IF data.status = "completed"
       THEN IF data.result = JsUndefined
              THEN /\ ppc' = "thrown"
                   /\ preads' = preads + 1
                   /\ UNCHANGED <<pidx, attempts, presults>>
              ELSE PushAndNext(CompletedItem(pjobIds[pidx], Len(presults), data.result),
                               attempts, preads + 1)
       ELSE IF data.status = "failed"
         THEN PushAndNext(FailedItem(pjobIds[pidx], Len(presults), data.error),
                          attempts, preads + 1)
         ELSE /\ ppc' = "sleep"
              /\ preads' = preads + 1
              /\ UNCHANGED <<pidx, attempts, presults>>
  /\ UNCHANGED pjobIds
  /\ UNCHANGED <<storeVars, workerVars, historyVars, submitVars, rpc, rid, rresp, rinfo, scoreVars, parseVars>>

\* part_000 47-48: fetch or response.json() rejects; pollResults rejects.
PollFetchFails ==
  /\ ppc = "fetch"
  /\ ppc' = "thrown"
  /\ pdata' = Absent
  /\ UNCHANGED <<pjobIds, pidx, attempts, presults, preads>>
  /\ UNCHANGED <<storeVars, workerVars, historyVars, submitVars, rpc, rid, rresp, rinfo, scoreVars, parseVars>>

\* part_000 84-103: the 2 s sleep, attempts++, the test of the while loop and,
\* once the attempts are used up, the timed-out entry.
PollSleep ==
  /\ ppc = "sleep"
  /\ IF attempts + 1 < maxAttempts
       THEN /\ attempts' = attempts + 1
            /\ ppc' = "fetch"
            /\ UNCHANGED <<pidx, presults, preads>>
       ELSE PushAndNext(TimedOutItem(pjobIds[pidx], Len(presults)), attempts + 1, preads)
  /\ UNCHANGED <<pjobIds, pdata>>
  /\ UNCHANGED <<storeVars, workerVars, historyVars, submitVars, rpc, rid, rresp, rinfo, scoreVars, parseVars>>

(* ---- the system ---- *)
(* ---- scoring engine: calls of scoreChiveAnalysis ---- *)
\* The regions array of the prompt with its first k cells holding chives.
Grid(k) ==
  JsArray([i \in 1..9 |->
             Region(GridIds[i], JsStr(IF i <= k THEN "clean" ELSE "no_chives"))])

\* The values the fields of `base` are drawn from: what JSON.parse can put
\* there (worker.js 107 checks nothing), thicknesses in hundredths of a mm.
Averages ==
  {JsNull, Infinity} \cup {JsNum(x) : x \in {0 - 100, 0, 1, 200, 500, 501}}
StdDevs ==
  {JsNull, Infinity, JsStr("0.75")}
    \cup {JsNum(x) : x \in {0 - 30, 0, 1, 75, 149, 150, 300}}
Labels ==
  {JsNull} \cup {JsStr(t) : t \in {"clean", "mixed", "ragged", "unknown", "Clean"}}
Notes == {JsUndefined, JsStr(""), JsStr(" "), JsStr("even cuts"), JsNum(5)}
Grids == {NotAnArray} \cup {Grid(k) : k \in {0, 1, 2, 9}}
ScoreInputs ==
  [averageThicknessMm : Averages, thicknessStdDevMm : StdDevs,
   cutQualityLabel : Labels, rawNotes : Notes, regions : Grids]

\* Region lists as JSON.parse can return them: an entry's label is one of
\* the strings, null, or missing (reading it gives undefined).
CellLabels == {JsStr("clean"), JsStr("no_chives"), JsNull, JsUndefined}
LabelGrid(f) ==
  JsArray([i \in 1..9 |->
             Region(GridIds[i], IF i <= VariedCells THEN f[i] ELSE JsStr("no_chives"))])
LabelGrids == {LabelGrid(f) : f \in [1..VariedCells -> CellLabels]}
RegionInputs ==
  [averageThicknessMm : {JsNum(200)}, thicknessStdDevMm : {JsNum(75)},
   cutQualityLabel : {JsStr("clean")}, rawNotes : {JsStr(""), JsStr("even cuts")},
   regions : LabelGrids]

NotScored == NoScore(<<>>)

\* Mutant: the notes are trimmed in place, in the caller's object.
ScoreCallTrimsInput ==
  /\ calls < MaxCalls
  /\ output' = scoreChiveAnalysis(input)
  /\ input' = IF input.rawNotes.type = "string"
               THEN [input EXCEPT !.rawNotes = JsStr(Trim(input.rawNotes.s))]
               ELSE input
  /\ calls' = calls + 1
  /\ UNCHANGED <<storeVars, workerVars, historyVars, submitVars,
                 rpc, rid, rresp, rinfo, pollVars, parseVars>>

\* part_001 27-102: one call; it reads `base` and builds a new object.
ScoreCall ==
  /\ calls < MaxCalls
  /\ output' = scoreChiveAnalysis(input)
  /\ calls' = calls + 1
  /\ UNCHANGED input
  /\ UNCHANGED <<storeVars, workerVars, historyVars, submitVars,
                 rpc, rid, rresp, rinfo, pollVars, parseVars>>

(* ---- worker: the parse step of processJob ---- *)
\* The content of a response, cut into pieces: prose without braces, a brace
\* character in prose, a well-formed JSON object of the shape asked for, and
\* a well-formed JSON object of another shape.
Pieces == {"text", "{", "}", "obj", "other"}
Contents == UNION {[1..n -> Pieces] : n \in 0..MaxTokens}
WrongShapeObject == [error |-> JsStr("cannot see any chives")]

NoContentFailure == "No content returned from X.AI API"
NoJsonFailure == "No JSON object found in response"
SyntaxFailure == "Unexpected token in JSON"

\* worker.js 102: content.match(/\{[\s\S]*\}/), greedy: from the first `{` to
\* the last `}` behind it; <<>> is the null of no match.
HasOpen(piece) == piece \in {"{", "obj", "other"}
HasClose(piece) == piece \in {"}", "obj", "other"}
Match(c) ==
  LET opens == {i \in 1..Len(c) : HasOpen(c[i])}
  IN IF opens = {} THEN <<>>
     ELSE LET first == CHOOSE i \in opens : \A k \in opens : i <= k
              closes == {j \in first..Len(c) :
                           HasClose(c[j]) /\ (j > first \/ c[first] # "{")}
          IN IF closes = {} THEN <<>>
             ELSE SubSeq(c, first, CHOOSE j \in closes : \A k \in closes : k <= j)

\* worker.js 107: JSON.parse(match[0]) accepts the text of one JSON value and
\* nothing else; it returns the object whatever its fields are.
JsonParses(m) == m \in {<<"obj">>, <<"other">>}
JsonParse(m) == IF m = <<"obj">> THEN GoodMetrics ELSE WrongShapeObject

\* worker.js 94-107: from `content` to `result`, or to the throw.
ParseContent ==
  /\ parsed = NoOutcome
  /\ parsed' =
       IF content = <<>> THEN Thrown(NoContentFailure)
       ELSE IF Match(content) = <<>> THEN Thrown(NoJsonFailure)
       ELSE IF JsonParses(Match(content)) THEN Parsed(JsonParse(Match(content)))
       ELSE Thrown(SyntaxFailure)
  /\ UNCHANGED content
  /\ UNCHANGED <<storeVars, workerVars, historyVars, submitVars,
                 rpc, rid, rresp, rinfo, pollVars, scoreVars>>

(* ---- the system ---- *)
InitPipeline ==
  /\ jobs = [id \in JobIds |-> Absent]
  /\ results = [id \in JobIds |-> Absent]
  /\ queue = <<>>
  /\ expired = {}
  /\ ttl = [kind \in {"job", "result"} |-> [id \in JobIds |-> 0]]
  /\ nextId = 1
  /\ wpc = [w \in Workers |-> "poll"]
  /\ wcur = [w \in Workers |-> NoJob]
  /\ wres = [w \in Workers |-> NoOutcome]
  /\ wjob = [w \in Workers |-> Absent]
  /\ resultLog = [id \in JobIds |-> <<>>]
  /\ popLog = [id \in JobIds |-> {}]
  /\ apiCalls = [id \in JobIds |-> 0]
  /\ jobLog = [id \in JobIds |-> <<>>]
  /\ spc = "idle"
  /\ sfiles = 0
  /\ sidx = 1
  /\ sjob = Absent
  /\ sjobs = <<>>
  /\ sresp = Absent
  /\ pushLog = <<>>
  /\ pushedAfterFailure = {}
  /\ rpc = "idle"
  /\ rid = 1
  /\ rresp = Absent
  /\ rinfo = [finished |-> FALSE, returned |-> FALSE,
              hadResult |-> FALSE, pendingBefore |-> FALSE, terminalBefore |-> None]
  /\ ppc = "idle"
  /\ pjobIds = <<>>
  /\ pidx = 1
  /\ attempts = 0
  /\ presults = <<>>
  /\ pdata = Absent
  /\ preads = 0

InitScoreIdle ==
  /\ input = GoodMetrics
  /\ output = NotScored
  /\ calls = 0

InitParseIdle ==
  /\ content = <<>>
  /\ parsed = NoOutcome

Init ==
  /\ InitPipeline
  /\ InitScoreIdle
  /\ InitParseIdle

\* The scoring engine on its own, called on each of the inputs.
InitScore ==
  /\ InitPipeline
  /\ InitParseIdle
  /\ input \in ScoreInputs
  /\ output = NotScored
  /\ calls = 0

WorkerStep(w) ==
  \/ BlPopItem(w) \/ BlPopTimeout(w) \/ BlPopError(w) \/ Backoff(w)
  \/ FetchImageOk(w) \/ FetchImageFails(w) \/ AnalyzeOk(w) \/ AnalyzeFails(w)
  \/ SetResult(w) \/ GetJob(w) \/ SetJob(w) \/ TryRedisError(w)
  \/ CatchSetResult(w) \/ CatchGetJob(w) \/ CatchSetJob(w) \/ CatchRedisError(w)

SubmitStep ==
  \/ \E n \in 0..MaxImages : SubmitStart(n)
  \/ SubmitUpload \/ SubmitUploadFails \/ SubmitSet \/ SubmitPush \/ SubmitRedisError

ReadStep ==
  \/ \E id \in JobIds : GetStart(id)
  \/ GetResult \/ GetJobRecord \/ GetRedisError

Expiry == \E kind \in {"job", "result"}, id \in JobIds : Expire(kind, id)

\* One worker process beside the submission endpoint and the store.
Next ==
  \/ WorkerStep("w1")
  \/ Crash("w1")
  \/ SubmitStep
  \/ Expiry

Spec == Init /\ [][Next]_vars

\* Several worker processes on the same queue.
NextWorkers ==
  \/ \E w \in Workers : WorkerStep(w)
  \/ \E w \in Workers : Crash(w)
  \/ SubmitStep
  \/ Expiry

SpecWorkers == Init /\ [][NextWorkers]_vars

\* One worker process and a client of the result endpoint, for the hour in
\* which no key written expires (EX 3600).
NextRead ==
  \/ WorkerStep("w1")
  \/ SubmitStep
  \/ ReadStep

SpecRead == Init /\ [][NextRead]_vars

\* One worker process that never dies: the while (true) of pollQueue
\* (worker.js 152) always takes its next step, and a blPop on a list that holds
\* a job does not fail forever (the store's outages are transient).
NextLive ==
  \/ WorkerStep("w1")
  \/ SubmitStep
  \/ Expiry

PollStep ==
  \/ \E ids \in JobIdLists : PollStart(ids)
  \/ \E data \in GetStatusAnswers : PollRead(data)
  \/ PollFetchFails
  \/ PollSleep

\* The client's poller against every answer the result endpoint can send.
NextPoll == PollStep

SpecPoll == Init /\ [][NextPoll]_vars

\* The client's poller on jobIds that have no Result for as long as it
\* polls: the endpoint answers every read, and never from a Result.  The
\* poller's promise chain always takes its next step (fetch resolves, the
\* timer of the sleep fires).
AnswersWithoutResult == {NotFound, StatusOnly("pending"), ServerError, ScoreError}
NextPending ==
  \/ \E ids \in JobIdLists : PollStart(ids)
  \/ \E data \in AnswersWithoutResult : PollRead(data)
  \/ PollSleep

SpecPending == Init /\ [][NextPending]_vars /\ WF_vars(NextPending)

\* One worker process and the submission endpoint, with every shape of
\* object the analysis service can answer with.
NextAnalyze ==
  \/ WorkerStep("w1")
  \/ AnalyzeOkMalformed("w1")
  \/ SubmitStep

SpecAnalyze == Init /\ [][NextAnalyze]_vars

\* One worker process and a client of the result endpoint, with an analysis
\* service that adds scores of its own to every answer.
NextServe ==
  \/ BlPopItem("w1") \/ BlPopTimeout("w1") \/ BlPopError("w1") \/ Backoff("w1")
  \/ FetchImageOk("w1") \/ FetchImageFails("w1")
  \/ AnalyzeOkScored("w1") \/ AnalyzeFails("w1")
  \/ SetResult("w1") \/ GetJob("w1") \/ SetJob("w1") \/ TryRedisError("w1")
  \/ CatchSetResult("w1") \/ CatchGetJob("w1") \/ CatchSetJob("w1")
  \/ CatchRedisError("w1")
  \/ SubmitStep
  \/ ReadStep

SpecServe == Init /\ [][NextServe]_vars

\* The parse step on its own, on each content.
InitParse ==
  /\ InitPipeline
  /\ InitScoreIdle
  /\ content \in Contents
  /\ parsed = NoOutcome

NextParse == ParseContent

SpecParse == InitParse /\ [][NextParse]_vars

\* The scoring engine on region lists with unlabelled entries.
InitRegions ==
  /\ InitPipeline
  /\ InitParseIdle
  /\ input \in RegionInputs
  /\ output = NotScored
  /\ calls = 0

NextScore == ScoreCall

SpecScore == InitScore /\ [][NextScore]_vars
SpecRegions == InitRegions /\ [][NextScore]_vars

SpecLive ==
  /\ Init
  /\ [][NextLive]_vars
  /\ WF_vars(WorkerStep("w1"))
  /\ SF_vars(BlPopItem("w1"))

(* ======================================================================= *)
(* Claims                                                                  *)
(* ======================================================================= *)
Terminal == {"completed", "failed"}
QueuedIds == {queue[k].jobId : k \in 1..Len(queue)}

(* C1: the Result of a jobId is written once and never changes: all the    *)
(* result records ever written under one jobId are the same record.        *)
C1_ResultWrittenOnce ==
  \A id \in JobIds : \A i, k \in 1..Len(resultLog[id]) :
    resultLog[id][i] = resultLog[id][k]

(* C2: in every state a Result exists for a jobId if and only if the job   *)
(* record has status completed or failed.                                  *)
C2_ResultIffTerminal ==
  \A id \in JobIds : (results[id] # Absent) <=> (jobs[id].status \in Terminal)

(* C2, amended: a job record with status completed or failed has a Result, *)
(* unless the Result key has expired; the Result is written first, so the  *)
(* converse does not hold.                                                 *)
C2_TerminalJobHasResult ==
  \A id \in JobIds :
    (jobs[id].status \in Terminal /\ <<"result", id>> \notin expired)
      => results[id] # Absent

C2_Witness ==
  \E id \in JobIds : jobs[id].status = "completed" /\ results[id] # Absent

(* C3: the statuses written under one job key only ever go                 *)
(* pending -> completed or pending -> failed: the first record written is  *)
(* pending, and nothing is written after a completed or failed record.     *)
StatusStep(from, to) ==
  /\ from = "pending"
  /\ to \in Terminal
C3_StatusMonotonic ==
  \A id \in JobIds :
    /\ jobLog[id] # <<>> => jobLog[id][1].status = "pending"
    /\ \A i \in 1..(Len(jobLog[id]) - 1) :
         StatusStep(jobLog[id][i].status, jobLog[id][i + 1].status)
    /\ jobs[id] # Absent => jobs[id] = jobLog[id][Len(jobLog[id])]

C3_Witness ==
  \E id \in JobIds : Len(jobLog[id]) = 2 /\ jobs[id].status = "failed"

(* C4: a GetStatus request that arrives after the worker has left          *)
(* processJob for the job is answered either completed with a raw result   *)
(* and no error, or failed with an error and no result.                    *)
C4_TerminalAnswerAfterProcessing ==
  (rpc = "done" /\ rinfo.finished /\ rresp.status # "error")
    => \/ rresp.status = "completed" /\ rresp.result # JsUndefined /\ rresp.error = None
       \/ rresp.status = "failed" /\ rresp.error # None /\ rresp.result = JsUndefined

(* C5: every job a worker popped and is done with, without having crashed, *)
(* has had a Result written for it.                                        *)
C5_FinishedJobHasResult ==
  \A id \in JobIds : Finished(id) => resultLog[id] # <<>>

(* C6: a GetStatus request for a jobId that Submit has returned, made      *)
(* before anything has expired, is answered with status pending.           *)
C6_PendingAfterSubmit ==
  (rpc = "done" /\ rinfo.returned /\ expired = {} /\ rresp.status # "error")
    => rresp = StatusOnly("pending")

(* C6, amended: such a request always finds the job; it is answered        *)
(* pending as long as no worker has written a Result for the job, and      *)
(* otherwise with the status of the job's Result or record.                *)
C6_FoundAfterSubmit ==
  (rpc = "done" /\ rinfo.returned /\ expired = {} /\ rresp.status # "error")
    => /\ rresp.status \in {"pending"} \cup Terminal
       /\ resultLog[rid] = <<>> => rresp = StatusOnly("pending")

C6_Witness ==
  /\ rpc = "done" /\ rinfo.returned /\ expired = {}
  /\ rresp = StatusOnly("pending")
  /\ rid = 2

(* C7: every job that has an entry in the queue has a job record in the    *)
(* store.                                                                  *)
C7_QueuedJobHasRecord ==
  \A id \in QueuedIds : jobs[id] # Absent

(* C7, amended: every job that has an entry in the queue had its job       *)
(* record written before it was pushed, and the record is still in the     *)
(* store, equal to the queued entry, unless its TTL has run out.           *)
C7_QueuedJobWasRecorded ==
  \A k \in 1..Len(queue) :
    /\ jobLog[queue[k].jobId] = <<queue[k]>>
    /\ \/ jobs[queue[k].jobId] = queue[k]
       \/ jobs[queue[k].jobId] = Absent /\ <<"job", queue[k].jobId>> \in expired

C7_Witness ==
  /\ Len(queue) = 2
  /\ jobs[queue[1].jobId] = Absent
  /\ jobs[queue[2].jobId] = queue[2]

(* C8: a successful Submit of n files answers n pairwise distinct jobIds   *)
(* in file order; for the k-th of them exactly one job record was created, *)
(* pending and for file k, and exactly one queue entry was pushed, the     *)
(* entries of the request in file order at the tail of the list.           *)
PushedIds == [k \in 1..Len(pushLog) |-> pushLog[k].jobId]
Pending(log) == {i \in 1..Len(log) : log[i].status = "pending"}
C8_SubmitAnswer ==
  (spc = "done" /\ sresp.ok) =>
    /\ Len(sresp.jobs) = sfiles
    /\ \A i, k \in 1..sfiles : i # k => sresp.jobs[i] # sresp.jobs[k]
    /\ \A k \in 1..sfiles :
         /\ jobLog[sresp.jobs[k]] # <<>>
         /\ jobLog[sresp.jobs[k]][1] = NewJob(sresp.jobs[k], k)
         /\ Pending(jobLog[sresp.jobs[k]]) = {1}
         /\ Cardinality({i \in 1..Len(pushLog) : PushedIds[i] = sresp.jobs[k]}) = 1
    /\ Len(pushLog) >= sfiles
    /\ \A k \in 1..sfiles :
         pushLog[Len(pushLog) - sfiles + k] = NewJob(sresp.jobs[k], k)
    /\ Len(queue) <= Len(pushLog)
    /\ queue = SubSeq(pushLog, Len(pushLog) - Len(queue) + 1, Len(pushLog))

C8_Witness ==
  /\ spc = "done" /\ sresp.ok /\ sfiles = 2
  /\ Len(queue) = 1
  /\ jobs[sresp.jobs[1]].status = "completed"

(* C9: no job is returned by blPop to two workers: whoever holds a job is  *)
(* the only worker that ever popped it, and the analysis service is called *)
(* for it by that worker alone.                                            *)
C9_PoppedOnce ==
  /\ \A id \in JobIds : Cardinality(popLog[id]) <= 1
  /\ \A w \in Workers : wcur[w] # NoJob => popLog[JobIdOf(w)] = {w}
  /\ \A id \in JobIds : resultLog[id] # <<>> => Cardinality(popLog[id]) = 1

C9_Witness ==
  /\ wcur["w1"] # NoJob /\ wcur["w2"] # NoJob
  /\ wpc["w1"] = "catch_get_job" /\ wpc["w2"] = "get_job"

(* C10: once a worker has crashed holding a job for which no Result had    *)
(* been written, that job is not in the queue, has no Result and never     *)
(* gets one, and its record is pending or gone.                            *)
Lost(w) ==
  /\ wpc[w] = "crashed"
  /\ resultLog[JobIdOf(w)] = <<>>
LostForGood(w) ==
  /\ JobIdOf(w) \notin QueuedIds
  /\ results[JobIdOf(w)] = Absent
  /\ jobs[JobIdOf(w)] # Absent => jobs[JobIdOf(w)].status = "pending"
C10_NoRedelivery ==
  [][\A w \in Workers :
       /\ Lost(w) => Lost(w)'
       /\ Lost(w)' => LostForGood(w)']_vars

C10_Witness ==
  /\ Lost("w1")
  /\ wpc["w2"] = "poll" /\ popLog[2] = {"w2"} /\ resultLog[2] # <<>>
  /\ <<"job", JobIdOf("w1")>> \in expired

(* C11: no failure while a job is handled ends the worker loop: every job  *)
(* in the queue, whatever failed before it was pushed, is popped and       *)
(* processJob is run for it to its end.                                     *)
C11_QueuedJobIsProcessed ==
  \A id \in JobIds : (id \in QueuedIds) ~> Finished(id)

C11_Witness ==
  \E id \in JobIds :
    /\ id \in pushedAfterFailure
    /\ Finished(id)
    /\ resultLog[id] # <<>>

(* C12: a job whose image fetch, analysis call or response parse failed    *)
(* leaves the catch block with a failed Result carrying that message in    *)
(* the store; no popped job is in the queue again; the analysis service is *)
(* called at most once for a jobId.                                        *)
JobLevelFailures == {FetchFailure} \cup ApiFailures
C12_JobFailureIsTerminal ==
  /\ [](\A id \in JobIds :
         /\ apiCalls[id] <= 1
         /\ popLog[id] # {} => id \notin QueuedIds)
  /\ [][\A w \in Workers :
          (/\ wpc[w] = "catch_set_result"
           /\ wres[w].message \in JobLevelFailures
           /\ wpc'[w] \notin {"catch_set_result", "crashed"})
            => results'[JobIdOf(w)] = FailedResult(JobIdOf(w), wres[w].message)]_vars

(* C13: no Result with status failed is ever written because a store or    *)
(* queue command failed: no failed Result carries the message of a Redis   *)
(* error.                                                                  *)
C13_StoreErrorIsNotJobFailure ==
  \A id \in JobIds : \A i \in 1..Len(resultLog[id]) :
    resultLog[id][i].status = "failed" => resultLog[id][i].error # RedisFailure

(* C14: when the worker is done with a job whose image fetch failed (the   *)
(* analysis service was never called for it), the store holds the failed   *)
(* Result of that job with the fetch error's message, unless the Result's  *)
(* TTL has run out.                                                        *)
C14_FetchFailureRecorded ==
  \A id \in JobIds :
    (Finished(id) /\ apiCalls[id] = 0 /\ <<"result", id>> \notin expired)
      => results[id] = FailedResult(id, FetchFailure)

(* C15: a Submit with no images is answered with the error response, not   *)
(* with a success that carries an empty jobs array.                        *)
C15_NoImagesRejected ==
  (spc = "done" /\ sfiles = 0) => sresp = ErrorResponse

(* C16: pollResults never ends without its list: it makes at most 60 reads *)
(* for a jobId, and when it is done the list holds one entry per jobId, in *)
(* the order of the jobIds.                                                *)
C16_OneOutcomePerJob ==
  /\ ppc # "thrown"
  /\ preads <= maxAttempts
  /\ ppc = "done" =>
       /\ Len(presults) = Len(pjobIds)
       /\ \A k \in 1..Len(pjobIds) :
            /\ presults[k].filename = pjobIds[k]
            /\ presults[k].bunchIndex = k - 1

(* C17: a read that returns completed ends the job with the completed      *)
(* entry made of the scored result, a read that returns failed ends it     *)
(* with the failed entry made of the error, any other read is followed by  *)
(* the sleep; the timed-out entry is pushed only after 60 reads, none of   *)
(* which returned completed or failed, and differs from every failed entry.*)
C17_OutcomeMatchesRead ==
  [][/\ (ppc = "fetch" /\ pdata' # Absent) =>
          /\ pdata'.status = "completed" =>
               /\ pdata'.result # JsUndefined
               /\ presults' = Append(presults, CompletedItem(pjobIds[pidx], Len(presults),
                                                             pdata'.result))
          /\ pdata'.status = "failed" =>
               presults' = Append(presults, FailedItem(pjobIds[pidx], Len(presults),
                                                       pdata'.error))
          /\ pdata'.status \notin Terminal => (presults' = presults /\ ppc' = "sleep")
     /\ (ppc = "sleep" /\ presults' # presults) =>
          /\ presults' = Append(presults, TimedOutItem(pjobIds[pidx], Len(presults)))
          /\ preads = maxAttempts
          /\ pdata.status \notin Terminal
          /\ \A msg \in FailureMessages \cup {None} :
               TimedOutItem(pjobIds[pidx], Len(presults))
                 # FailedItem(pjobIds[pidx], Len(presults), msg)]_vars

AnsweredFrom(log) == {ResultResponse(log[i]) : i \in 1..Len(log)}
C19_AnswersFromStore ==
  [][/\ (rpc = "get_result" /\ rpc' = "done" /\ rresp' # ServerError) =>
          /\ results[rid] # Absent
          /\ results[rid].status = "failed" => rresp' = FailedResponse(results[rid].error)
          /\ results[rid].status = "completed" =>
               rresp' = CompletedResponse(results[rid].result,
                                          scoreChiveAnalysis(results[rid].result))
     /\ (rpc = "get_job" /\ rpc' = "done" /\ rresp' # ServerError) =>
          /\ (rresp' = NotFound) <=> (jobs[rid] = Absent)
          /\ (jobs[rid] # Absent /\ jobs[rid].status = "pending")
               => rresp' = StatusOnly("pending")]_vars

(* C20: no record written under a result key or a job key, and no queue    *)
(* entry, holds a field of the scores; every answer made from a completed  *)
(* Result is the outcome of scoreChiveAnalysis on the raw metrics in the   *)
(* store at that read (its scores, or its exception as a 500); and no step *)
(* of GetStatus changes the store or the queue.                            *)
Unscored(record) == DOMAIN record \cap ScoreFields = {}
C20_ScoresNeverStored ==
  /\ [](\A id \in JobIds :
         /\ \A i \in 1..Len(resultLog[id]) :
              /\ Unscored(resultLog[id][i])
              /\ resultLog[id][i].status = "completed" => Unscored(resultLog[id][i].result)
         /\ \A i \in 1..Len(jobLog[id]) : Unscored(jobLog[id][i]))
  /\ [](\A k \in 1..Len(pushLog) : Unscored(pushLog[k]))
  /\ [][/\ (rpc # rpc' \/ rresp # rresp') => UNCHANGED <<jobs, results, queue>>
        /\ (/\ rpc = "get_result" /\ rpc' = "done" /\ rresp' # ServerError
            /\ results[rid].status = "completed") =>
             IF scoreChiveAnalysis(results[rid].result).threw
               THEN rresp' = ScoreError
               ELSE \A f \in ScoreFields :
                      rresp'.result[f] = scoreChiveAnalysis(results[rid].result)[f]]_vars

C20_Witness ==
  /\ rpc = "done" /\ rinfo.pendingBefore = FALSE /\ rinfo.hadResult
  /\ results[rid] = CompletedResult(rid, GoodMetrics)
  /\ rresp.status = "completed"
  /\ rresp.result.overallScore = JsNum(70)
  /\ rresp.result.thicknessConsistencyScore = JsNum(50)

(* C21: with one worker, jobs are popped in the order of their pushes, and  *)
(* when the worker starts on a job every job pushed before it has been     *)
(* popped, has been left by processJob and has had its Result written.     *)
PushedBefore(id) ==
  {pushLog[i].jobId : i \in {i \in 1..Len(pushLog) :
     \E k \in 1..Len(pushLog) : i < k /\ pushLog[k].jobId = id}}
PushedAfter(id) == {a \in JobIds : id \in PushedBefore(a)}
IsRawMetrics(b) ==
  /\ b.averageThicknessMm.type \in {"number", "null", "undefined"}
  /\ b.thicknessStdDevMm.type \in {"number", "null", "undefined"}
  /\ b.cutQualityLabel \in {JsStr(t) : t \in {"clean", "mixed", "ragged", "unknown"}}
  /\ b.rawNotes.type \in {"string", "undefined"}
  /\ b.regions.isArray /\ Len(b.regions.items) = 9
  /\ \A i \in 1..9 :
       /\ b.regions.items[i].id = GridIds[i]
       /\ b.regions.items[i].regionCutQualityLabel \in
            {JsStr(t) : t \in {"clean", "mixed", "ragged", "no_chives"}}
ActiveRegions(b) ==
  {i \in 1..Len(b.regions.items) :
     b.regions.items[i].regionCutQualityLabel # JsStr("no_chives")}
OutsideRange(avg) ==
  avg.type = "number" /\ (avg = Infinity \/ avg.n <= 0 \/ avg.n > 500)
PassesGuards(b) ==
  /\ b.regions.isArray
  /\ Cardinality(ActiveRegions(b)) >= 2
  /\ ~OutsideRange(b.averageThicknessMm)
  /\ b.rawNotes.type \in {"string", "undefined"}
AllNull(o) ==
  /\ ~o.threw
  /\ o.thicknessConsistencyScore = JsNull
  /\ o.cutQualityScore = JsNull
  /\ o.overallScore = JsNull
NoChivesNotes ==
  {"No regions with chives detected; score not computed.",
   " (No regions with chives detected; score not computed.)"}

(* C22: for every RawMetrics with no active region or exactly one, the     *)
(* call returns the three scores null; with no active region its notes end *)
(* with the sentence that no regions with chives were detected.            *)
C22_GuardsAB ==
  (calls > 0 /\ IsRawMetrics(input) /\ Cardinality(ActiveRegions(input)) <= 1) =>
    /\ AllNull(output)
    /\ ActiveRegions(input) = {} =>
         /\ output.notes # <<>>
         /\ output.notes[Len(output.notes)] \in NoChivesNotes

C22_Witness ==
  /\ calls > 0 /\ IsRawMetrics(input)
  /\ input.regions = Grid(0)
  /\ input.averageThicknessMm = JsNum(200)
  /\ input.thicknessStdDevMm = JsNum(75)
  /\ input.cutQualityLabel = JsStr("clean")
  /\ output = NoScore(<<"even cuts", " (No regions with chives detected; score not computed.)">>)

(* C23: for every RawMetrics whose averageThicknessMm is a number that is   *)
(* <= 0 or > 5 mm, the call returns the three scores null.                 *)
C23_GuardC ==
  (calls > 0 /\ IsRawMetrics(input) /\ OutsideRange(input.averageThicknessMm)) =>
    AllNull(output)

C23_Witness ==
  /\ calls > 0 /\ IsRawMetrics(input)
  /\ input.regions = Grid(9)
  /\ input.averageThicknessMm = JsNum(0)
  /\ input.thicknessStdDevMm = JsNum(75)
  /\ output = NoScore(<<"Model reported an implausible average thickness for chives; score not computed.">>)

(* C24: for every RawMetrics that passes the three guards, the consistency *)
(* score is null or in [0,1], the quality score is one of 1.0, 0.7, 0.35   *)
(* and 0.5, and overallScore is an integer in [0,100].                     *)
C24_ScoresInRange ==
  (calls > 0 /\ IsRawMetrics(input) /\ PassesGuards(input)) =>
    /\ ~output.threw
    /\ \/ output.thicknessConsistencyScore = JsNull
       \/ /\ IsFinite(output.thicknessConsistencyScore)
          /\ output.thicknessConsistencyScore.n \in 0..100
    /\ output.cutQualityScore \in {JsNum(100), JsNum(70), JsNum(35), JsNum(50)}
    /\ IsFinite(output.overallScore)
    /\ output.overallScore.n \in 0..100

(* C25: for inputs that pass the guards, the consistency score is          *)
(* max(0, 1 - thicknessStdDevMm / 1.5) to the nearest hundredth when the   *)
(* standard deviation is a finite number, and null otherwise; 0 gives 1.0, *)
(* 0.75 gives 0.5, 1.5 and more gives 0.                                   *)
NearestHundredth(k, num, den) == 2 * k * den - den <= 2 * num /\ 2 * num < 2 * k * den + den
C25_Consistency ==
  (calls > 0 /\ PassesGuards(input)) =>
    LET std == input.thicknessStdDevMm
        c == output.thicknessConsistencyScore
    IN /\ ~output.threw
       /\ IF std.type = "number" /\ std # Infinity
            THEN /\ IsFinite(c)
                 /\ IF std.n >= 150 THEN c.n = 0
                      ELSE NearestHundredth(c.n, 100 * (150 - std.n), 150)
                 /\ std.n = 0 => c.n = 100
                 /\ std.n = 75 => c.n = 50
            ELSE c = JsNull

C25_Witness ==
  /\ calls > 0 /\ PassesGuards(input)
  /\ input.thicknessStdDevMm = JsNum(149)
  /\ output.thicknessConsistencyScore = JsNum(1)

(* C26: for inputs that pass the guards, overallScore is                   *)
(* round((c * 0.6 + q * 0.4) * 100) with c and q the two scores, each 0.5  *)
(* when null; 0.75 with clean gives 0.5, 1.0 and 70.                       *)
C26_Overall ==
  (calls > 0 /\ PassesGuards(input)) =>
    LET c == IF output.thicknessConsistencyScore = JsNull THEN 50
             ELSE output.thicknessConsistencyScore.n
        q == IF output.cutQualityScore = JsNull THEN 50
             ELSE output.cutQualityScore.n
    IN /\ ~output.threw
       /\ IsFinite(output.overallScore)
       /\ NearestHundredth(output.overallScore.n, 60 * c + 40 * q, 100)
       /\ (input.thicknessStdDevMm = JsNum(75) /\ input.cutQualityLabel = JsStr("clean")) =>
            /\ output.thicknessConsistencyScore = JsNum(50)
            /\ output.cutQualityScore = JsNum(100)
            /\ output.overallScore = JsNum(70)

C26_Witness ==
  /\ calls > 0 /\ PassesGuards(input)
  /\ input.thicknessStdDevMm = JsNull
  /\ input.cutQualityLabel = JsStr("ragged")
  /\ output.overallScore = JsNum(44)

C28_NineRegions ==
  \A id \in JobIds : results[id].status = "completed" =>
    LET regions == results[id].result.regions
    IN /\ regions.isArray
       /\ Len(regions.items) = 9
       /\ \A g \in 1..9 :
            Cardinality({i \in 1..Len(regions.items) : regions.items[i].id = GridIds[g]}) = 1

(* C29: every write of a job key or a result key sets a time to live of    *)
(* one hour, every key in the store has that time to live, and a key       *)
(* leaves the store only in a step of the store in which it expires.       *)
C29_OnlyExpiry ==
  /\ [](\A id \in JobIds :
         /\ jobs[id] # Absent => ttl["job"][id] = 60 * 60
         /\ results[id] # Absent => ttl["result"][id] = 60 * 60)
  /\ [][\A id \in JobIds :
         /\ jobLog'[id] # jobLog[id] => ttl'["job"][id] = 60 * 60
         /\ resultLog'[id] # resultLog[id] => ttl'["result"][id] = 60 * 60
         /\ (jobs[id] # Absent /\ jobs'[id] = Absent) =>
              /\ <<"job", id>> \in expired'
              /\ UNCHANGED <<queue, nextId, workerVars, historyVars, submitVars, readVars>>
         /\ (results[id] # Absent /\ results'[id] = Absent) =>
              /\ <<"result", id>> \in expired'
              /\ UNCHANGED <<queue, nextId, workerVars, historyVars, submitVars, readVars>>]_vars

C29_Witness ==
  \E id \in JobIds :
    /\ <<"result", id>> \in expired /\ results[id] = Absent
    /\ Len(resultLog[id]) = 1
    /\ Len(jobLog[id]) = 2 /\ jobs[id] = jobLog[id][2]
    /\ ttl["job"][id] = 60 * 60

(* C30: a job record appears in the store only by the set of Submit; a     *)
(* record that is in the store is changed only by the worker and only in   *)
(* its status; no other step writes a job record.                          *)
C30_JobRecordWrites ==
  [][\A id \in JobIds : (jobs'[id] # jobs[id] /\ jobs'[id] # Absent) =>
       IF jobs[id] = Absent
         THEN /\ spc = "set" /\ spc' = "push"
              /\ jobs'[id] = sjob
              /\ UNCHANGED workerVars
         ELSE /\ \E w \in Workers : wpc[w] # wpc'[w] /\ JobIdOf(w) = id
              /\ jobs'[id] = [jobs[id] EXCEPT !.status = jobs'[id].status]
              /\ UNCHANGED submitVars]_vars

(* C31: a worker has at most one job in hand; it pops only when it has     *)
(* none, that is after processJob has been left for every job it popped    *)
(* before; and every analysis call and every store write of a job is made  *)
(* by a worker that has that job in hand.                                  *)
C31_Sequential ==
  /\ [](\A w \in Workers : wpc[w] \in {"poll", "backoff"} => wcur[w] = NoJob)
  /\ [][\A w \in Workers, id \in JobIds :
         (w \in popLog'[id] /\ w \notin popLog[id]) =>
           /\ wpc[w] = "poll" /\ wcur[w] = NoJob
           /\ wcur'[w].jobId = id
           /\ \A a \in JobIds : w \in popLog[a] => a # id]_vars
  /\ [][\A id \in JobIds :
         (\/ apiCalls'[id] # apiCalls[id]
          \/ resultLog'[id] # resultLog[id]
          \/ jobLog'[id] # jobLog[id] /\ jobLog[id] # <<>>) =>
           \E w \in Workers : wcur[w] # NoJob /\ wcur[w].jobId = id]_vars

C31_Witness ==
  /\ Len(pushLog) = 2
  /\ "w1" \in popLog[pushLog[1].jobId]
  /\ wcur["w1"] = pushLog[2]
  /\ wpc["w1"] = "set_job"
  /\ apiCalls[pushLog[1].jobId] = 1

(* C32: a poll that yields no job changes nothing in the store: from its   *)
(* poll a worker only goes on to a job that was at the head of the queue   *)
(* or, on an error, to its back-off, from which it only returns to the     *)
(* poll; a step into or out of the back-off leaves the queue, the job and  *)
(* result records and the worker's locals unchanged.                       *)
C32_EmptyPollChangesNothing ==
  [][\A w \in Workers :
       /\ (wpc[w] = "poll" /\ wpc'[w] # "poll") =>
            \/ /\ wpc'[w] = "fetch" /\ queue # <<>> /\ wcur'[w] = Head(queue)
            \/ /\ wpc'[w] = "backoff"
               /\ UNCHANGED <<storeVars, historyVars, wcur, wres, wjob, submitVars, readVars>>
       /\ (wpc[w] = "backoff" /\ wpc'[w] # "backoff") =>
            /\ wpc'[w] = "poll"
            /\ UNCHANGED <<storeVars, historyVars, wcur, wres, wjob, submitVars, readVars>>]_vars

C32_Witness ==
  /\ wpc["w1"] = "backoff"
  /\ \A id \in JobIds : popLog[id] = {} /\ results[id] = Absent
  /\ Len(queue) = 2
  /\ jobs[queue[1].jobId] = queue[1]
  /\ spc = "done"

(* C33: whenever the content holds a well-formed JSON object, whatever     *)
(* stands before and after it, the first such object is what the parse     *)
(* step returns, provided it has the shape asked for; a content without    *)
(* any JSON object, or whose first object has another shape, is rejected.  *)
Objects(c) == {i \in 1..Len(c) : c[i] \in {"obj", "other"}}
FirstObject(c) == c[CHOOSE i \in Objects(c) : \A k \in Objects(c) : i <= k]
C33_ParseTolerant ==
  parsed # NoOutcome =>
    IF Objects(content) = {} THEN parsed.message # None
    ELSE IF FirstObject(content) = "obj" THEN parsed = Parsed(GoodMetrics)
    ELSE parsed.message # None


(* C34: for every region list, the guard taken by the call (no active      *)
(* region, exactly one, two or more) is the one given by the number of     *)
(* entries whose label differs from no_chives, entries without a label     *)
(* counted among them.                                                     *)
GuardTaken(o) ==
  IF ~AllNull(o) THEN "scored"
  ELSE IF o.notes # <<>> /\ o.notes[Len(o.notes)] \in NoChivesNotes THEN "none"
  ELSE "one"
GuardOf(n) == IF n = 0 THEN "none" ELSE IF n = 1 THEN "one" ELSE "scored"
C34_ActiveRegionsCounted ==
  calls > 0 => GuardTaken(output) = GuardOf(Cardinality(ActiveRegions(input)))


(* C35 as stated: for inputs that pass the guards, cutQualityScore is 1.0  *)
(* for the label clean, 0.7 for mixed, 0.35 for ragged and 0.5 for every   *)
(* other label value, whatever the regions and the thickness fields are.   *)
C35_QualityByLabel ==
  (calls > 0 /\ PassesGuards(input)) =>
    /\ ~output.threw
    /\ output.cutQualityScore =
         (IF input.cutQualityLabel = JsStr("clean") THEN JsNum(100)
          ELSE IF input.cutQualityLabel = JsStr("mixed") THEN JsNum(70)
          ELSE IF input.cutQualityLabel = JsStr("ragged") THEN JsNum(35)
          ELSE JsNum(50))

(* C35 amended: for inputs that pass the guards, cutQualityScore is a      *)
(* function of cutQualityLabel alone: null when the label is not a string, *)
(* else 1.0, 0.7 or 0.35 when the label is clean, mixed or ragged in any   *)
(* letter case, else 0.5.                                                  *)
C35_QualityByLabelAnyCase ==
  (calls > 0 /\ PassesGuards(input)) =>
    /\ ~output.threw
    /\ output.cutQualityScore =
         (IF input.cutQualityLabel.type # "string" THEN JsNull
          ELSE IF input.cutQualityLabel.s \in {"clean", "Clean"} THEN JsNum(100)
          ELSE IF input.cutQualityLabel.s = "mixed" THEN JsNum(70)
          ELSE IF input.cutQualityLabel.s = "ragged" THEN JsNum(35)
          ELSE JsNum(50))

C35_Witness ==
  /\ calls > 0 /\ PassesGuards(input)
  /\ input.cutQualityLabel = JsStr("Clean")
  /\ input.regions = Grid(2)
  /\ input.thicknessStdDevMm = JsNum(300)
  /\ output.cutQualityScore = JsNum(100)


(* C36: in every state, a job record with status completed has a Result    *)
(* with status completed for its jobId and a job record with status failed *)
(* has a Result with status failed, as long as the Result key has not      *)
(* expired.                                                                *)
C36_TerminalStatusBacked ==
  \A id \in JobIds :
    (jobs[id].status \in Terminal /\ <<"result", id>> \notin expired) =>
      /\ results[id] # Absent
      /\ results[id].status = jobs[id].status
      /\ results[id].jobId = id

\* The job record could not be completed after the completed Result was
\* written; the catch block replaced the Result before failing the record.
C36_Witness ==
  \E id \in JobIds :
    /\ jobs[id].status = "failed" /\ results[id].status = "failed"
    /\ Len(resultLog[id]) = 2 /\ resultLog[id][1].status = "completed"
    /\ expired = {}


(* C37: once a read of a jobId has been answered completed or failed, the  *)
(* next read of that jobId is answered with the same status, as long as no *)
(* key has expired: never pending, never not_found, never the other        *)
(* terminal status.                                                        *)
C37_ReadsMonotonic ==
  (rpc = "done" /\ rinfo.terminalBefore # None /\ expired = {} /\ rresp.status # "error")
    => rresp.status = rinfo.terminalBefore


(* C38: every completed answer that carries a result holds the four fields *)
(* thicknessConsistencyScore, cutQualityScore, overallScore and notes, and *)
(* each is the value scoreChiveAnalysis computes from the raw metrics read *)
(* from the store at that request, also when the stored raw metrics hold   *)
(* fields of those names themselves.                                       *)
C38_ScoresFromEngine ==
  /\ []((rpc = "done" /\ rresp.status = "completed" /\ rresp.result # JsUndefined) =>
          ScoreFields \subseteq DOMAIN rresp.result)
  /\ [][(rpc = "get_result" /\ rpc' = "done" /\ rresp'.status = "completed") =>
          /\ results[rid].status = "completed"
          /\ ~scoreChiveAnalysis(results[rid].result).threw
          /\ DOMAIN rresp'.result = DOMAIN results[rid].result \cup ScoreFields
          /\ \A f \in DOMAIN rresp'.result :
               rresp'.result[f] =
                 IF f \in ScoreFields THEN scoreChiveAnalysis(results[rid].result)[f]
                 ELSE results[rid].result[f]]_vars

C38_Witness ==
  /\ rpc = "done" /\ rresp.status = "completed"
  /\ results[rid] = CompletedResult(rid, ModelScoredMetrics)
  /\ results[rid].result.overallScore = JsNum(99)
  /\ rresp.result.overallScore = JsNum(70)
  /\ rresp.result.cutQualityScore = JsNum(100)
  /\ rresp.result.notes = <<"even cuts">>
  /\ rresp.result.averageThicknessMm = JsNum(200)


(* C39: a Submit that fails at its k-th image answers an error without     *)
(* jobIds and undoes nothing: the job records and queue entries made for   *)
(* images 1..k-1 are left as they are, no caller holds their jobIds, and   *)
(* the worker later pops each of them and runs processJob for it.          *)
SubmitFailsAtStep ==
  spc \in {"upload", "set", "push"} /\ spc' = "done" /\ ~sresp'.ok
Orphaned(id) ==
  /\ spc = "done" /\ ~sresp.ok
  /\ \E i \in 1..Len(sjobs) : sjobs[i] = id
C39_Safety ==
  [][SubmitFailsAtStep =>
       /\ sresp'.jobs = <<>>
       /\ UNCHANGED <<jobs, results, queue, sjobs, sidx>>
       /\ Len(sjobs) = sidx - 1
       /\ \A i \in 1..Len(sjobs) :
            /\ jobLog[sjobs[i]] # <<>>
            /\ jobLog[sjobs[i]][1] = NewJob(sjobs[i], i)
            /\ \E k \in 1..Len(pushLog) : pushLog[k] = NewJob(sjobs[i], i)
            /\ sjobs[i] \in QueuedIds \/ popLog[sjobs[i]] # {}
            /\ ~Returned(sjobs[i])']_vars

C40_NotFoundKeepsPolling ==
  /\ [][(ppc = "fetch" /\ pdata'.status \notin Terminal) =>
          /\ ppc' = "sleep"
          /\ preads' = preads + 1
          /\ UNCHANGED <<pidx, presults, pjobIds, attempts>>]_vars
  /\ [][(ppc = "sleep" /\ ppc' # "sleep") =>
          IF preads < maxAttempts
            THEN /\ ppc' = "fetch"
                 /\ UNCHANGED <<pidx, presults, pjobIds, preads>>
            ELSE /\ preads = maxAttempts
                 /\ presults' = Append(presults, TimedOutItem(pjobIds[pidx], Len(presults)))]_vars
  /\ [](ppc \in {"fetch", "sleep"} =>
          /\ Len(presults) = pidx - 1
          /\ \A k \in 1..(pidx - 1) : presults[k].filename = pjobIds[k])
  /\ \A ids \in JobIdLists :
       (ppc = "fetch" /\ pjobIds = ids) ~>
         (/\ ppc = "done" /\ pjobIds = ids /\ preads = maxAttempts
          /\ presults = [k \in 1..Len(ids) |-> TimedOutItem(ids[k], k - 1)])

C40_Witness ==
  /\ ppc = "done" /\ pjobIds = <<2, 1>> /\ preads = maxAttempts
  /\ pdata = NotFound
  /\ presults = <<TimedOutItem(2, 0), TimedOutItem(1, 1)>>

====
